---- MODULE Spec2Model ----
(***************************************************************************)
(* Model of streamlit_app.py: one browser session of the sustainability    *)
(* packaging chatbot.  Every user interaction makes Streamlit run main()   *)
(* once from top to bottom; an action of this model is one such run.       *)
(*                                                                         *)
(* Text is a sequence of tokens.  Document text is a sequence of single    *)
(* characters; the literal parts of a prompt template are single tokens.   *)
(* Emission quantities are exact multiples of 0.0001 kg CO2e (weights in   *)
(* grams, distances in km, factors in tenths), so binary floating-point    *)
(* rounding is not represented.                                            *)
(***************************************************************************)
EXTENDS Integers, Sequences, FiniteSets, TLC

VARIABLES
    GROQ_API_KEY,   \* TRUE iff os.getenv("GROQ_API_KEY") gave a non-empty key
    messages,       \* st.session_state.messages (an absent key reads as <<>>)
    uploaded,       \* the file held by the uploader widget: <<>> or <<pdf>>
    lastAction,     \* the interaction that caused the last run of main()
    chatInput,      \* the value st.chat_input returned in the last run
    cfInput,        \* the estimator widgets' values used by the last run
    outcome,        \* what the gateway did with the last run's request
    posts,          \* the conversations sent with requests.post in the last run
    errors,         \* the st.error messages of the last run, in order
    rendered,       \* the views whose widgets the last run rendered
    calls,          \* the functions of the module the last run called, in order
    uncaught,       \* the exception that ended the last run, or "none"
    footprint       \* the results carbon_footprint_tab displayed in the last run

vars == <<GROQ_API_KEY, messages, uploaded, lastAction, chatInput, cfInput,
          outcome, posts, errors, rendered, calls, uncaught, footprint>>

------------------------------------------------------------------------------
(* Bounds *)

\* the longest chat history a run ends with
MaxHistory == 3

Min(a, b) == IF a < b THEN a ELSE b

Range(s) == {s[i] : i \in DOMAIN s}

IsPrefix(s, t) == Len(s) <= Len(t) /\ SubSeq(t, 1, Len(s)) = s

------------------------------------------------------------------------------
(* Constants of the program *)

SYSTEM_PROMPT == <<"SYSTEM_PROMPT">>

EsgTextLimit == 3500

MaterialOptions ==
    {"Plastic", "Glass", "Aluminum", "Paper", "Bioplastic", "Compostable", "Other"}

\* kg CO2e per kg of material, in tenths
material_factors ==
    [Plastic |-> 25, Glass |-> 12, Aluminum |-> 100, Paper |-> 10,
     Bioplastic |-> 15, Compostable |-> 12, Other |-> 20]

\* the default of material_factors.get(material, 2.0), in tenths
DefaultFactor == 20

\* the messages of st.error
ErrKeyNotSet == "GROQ_API_KEY not set. Please check your .env file."
ErrApi == "API Error"
ErrRequestFailed == "Request failed"
ErrFormat == "Unexpected API response format"
ErrReadPdf == "Could not read PDF"
ErrNoText == "No readable text found in PDF."
ErrNoResponse == "Could not get a response from the model."
ErrAnalyze == "Failed to analyze report."
ErrScore == "AI could not generate a response."

AllViews == {"sidebar", "chat", "esg", "score", "carbon"}

------------------------------------------------------------------------------
(* Inputs *)

Prompts == {<<"q1">>, <<"q2">>}

Whitespace == {" ", "\n"}

\* what page.extract_text() does: a text, None, or an exception
PageA == [kind |-> "text", text |-> <<"a">>]
PageBlank == [kind |-> "text", text |-> <<" ">>]
PageNone == [kind |-> "none", text |-> <<>>]
PageRaise == [kind |-> "raise", text |-> <<>>]

PageSeqs ==
    {<<>>, <<PageA>>, <<PageBlank>>, <<PageNone, PageA>>, <<PageBlank, PageA, PageBlank>>,
     <<PageRaise>>, <<PageA, PageRaise>>, <<PageBlank, PageRaise>>}

\* the documents: PdfReader opens them or raises
PDFs == {[opens |-> TRUE, pages |-> p] : p \in PageSeqs}
            \cup {[opens |-> FALSE, pages |-> <<>>]}

ScoreMaterials == {"Glass"}
ScoreWeights == {500}
Renewables == {FALSE}

\* the estimator form of the session
FormWeights == {500}
FormDistances == {100}

Weights == {0, 50, 500, 1000}
Distances == {0, 10, 100}

UnknownMaterials == {"Unknown-XYZ", "", "plastic"}

TransportFailures == {"timeout", "transport"}

MalformedBodies ==
    {"no_choices", "empty_choices", "null_choice", "str_choice",
     "no_message", "no_content"}

ReplyBodies == {"ok_empty", "ok_text"}

Outcomes == TransportFailures \cup {"http_error"} \cup MalformedBodies
                \cup {"null_content"} \cup ReplyBodies

------------------------------------------------------------------------------
(* Python values *)

PyNone == [none |-> TRUE, str |-> <<>>]
PyStr(s) == [none |-> FALSE, str |-> s]

\* the truth value of a str or None
Truthy(v) == ~v.none /\ v.str # <<>>

(* JSON values *)
JNull == [t |-> "null"]
JStr(s) == [t |-> "str", s |-> s]
JList(xs) == [t |-> "list", xs |-> xs]
JDict(kv) == [t |-> "dict", kv |-> kv]

Ok(v) == [exc |-> "none", val |-> v]
Raise(e) == [exc |-> e, val |-> JNull]

\* v[k] for a str key k
GetKey(v, k) ==
    IF v.t = "dict"
    THEN IF k \in DOMAIN v.kv THEN Ok(v.kv[k]) ELSE Raise("KeyError")
    ELSE Raise("TypeError")

\* v[i] for an int index i >= 0
GetIndex(v, i) ==
    CASE v.t = "dict" -> Raise("KeyError")
      [] v.t = "list" -> IF i < Len(v.xs) THEN Ok(v.xs[i + 1]) ELSE Raise("IndexError")
      [] v.t = "str"  -> IF i < Len(v.s) THEN Ok(JStr(<<v.s[i + 1]>>)) ELSE Raise("IndexError")
      [] OTHER        -> Raise("TypeError")

Choice(message) == JDict([message |-> message])
Reply(content) == JDict([choices |-> JList(<<Choice(JDict([content |-> content]))>>)])

\* the JSON body of a 2xx response
Body(o) ==
    CASE o = "no_choices"    -> JDict([id |-> JStr(<<"x">>)])
      [] o = "empty_choices" -> JDict([choices |-> JList(<<>>)])
      [] o = "null_choice"   -> JDict([choices |-> JList(<<JNull>>)])
      [] o = "str_choice"    -> JDict([choices |-> JList(<<JStr(<<"x">>)>>)])
      [] o = "no_message"    -> JDict([choices |-> JList(<<JDict([index |-> JNull])>>)])
      [] o = "no_content"    -> JDict([choices |-> JList(<<Choice(JDict([role |-> JNull]))>>)])
      [] o = "null_content"  -> Reply(JNull)
      [] o = "ok_empty"      -> Reply(JStr(<<>>))
      [] o = "ok_text"       -> Reply(JStr(<<"r1">>))

\* response.json()["choices"][0]["message"]["content"]
ReplyField(body) ==
    LET a == GetKey(body, "choices") IN
    IF a.exc # "none" THEN a ELSE
    LET b == GetIndex(a.val, 0) IN
    IF b.exc # "none" THEN b ELSE
    LET c == GetKey(b.val, "message") IN
    IF c.exc # "none" THEN c ELSE
    GetKey(c.val, "content")

\* a JSON string or null as the Python value json() gives
ToPython(v) == IF v.t = "str" THEN PyStr(v.s) ELSE PyNone

------------------------------------------------------------------------------
(* ask_groq: one POST, then the reply text, None, or an exception *)

Returned(conversation, ret, errs) ==
    [posts |-> <<conversation>>, ret |-> ret, raised |-> "none", errors |-> errs]

Raised(conversation, exc) ==
    [posts |-> <<conversation>>, ret |-> PyNone, raised |-> exc, errors |-> <<>>]

\* ask_groq returning the body text of an error response instead of None
ask_groq_error_text(conversation, o) ==
    IF o \in TransportFailures
    THEN Returned(conversation, PyNone, <<ErrRequestFailed>>)
    ELSE IF o = "http_error"
    THEN Returned(conversation, PyStr(<<"e.response.text">>), <<ErrApi>>)
    ELSE LET r == ReplyField(Body(o)) IN
         IF r.exc = "none" THEN Returned(conversation, ToPython(r.val), <<>>)
         ELSE IF r.exc = "KeyError" THEN Returned(conversation, PyNone, <<ErrFormat>>)
         ELSE Raised(conversation, r.exc)

\* ask_groq posting a second time after a request failure
ask_groq_retry(conversation, o) ==
    IF o \in TransportFailures
    THEN [posts |-> <<conversation, conversation>>, ret |-> PyNone,
          raised |-> "none", errors |-> <<ErrRequestFailed>>]
    ELSE IF o = "http_error"
    THEN Returned(conversation, PyNone, <<ErrApi>>)
    ELSE LET r == ReplyField(Body(o)) IN
         IF r.exc = "none" THEN Returned(conversation, ToPython(r.val), <<>>)
         ELSE IF r.exc = "KeyError" THEN Returned(conversation, PyNone, <<ErrFormat>>)
         ELSE Raised(conversation, r.exc)

ask_groq(conversation, o) ==
    IF o \in TransportFailures
    THEN Returned(conversation, PyNone, <<ErrRequestFailed>>)
    ELSE IF o = "http_error"
    THEN Returned(conversation, PyNone, <<ErrApi>>)
    ELSE LET r == ReplyField(Body(o)) IN
         IF r.exc = "none" THEN Returned(conversation, ToPython(r.val), <<>>)
         ELSE IF r.exc = "KeyError" THEN Returned(conversation, PyNone, <<ErrFormat>>)
         ELSE Raised(conversation, r.exc)

------------------------------------------------------------------------------
(* extract_text_from_pdf *)

\* page.extract_text() or ""
PageText(page) == IF page.kind = "text" THEN page.text ELSE <<>>

RECURSIVE ReadPages(_, _)
ReadPages(pages, text) ==
    IF pages = <<>> THEN [text |-> text, errors |-> <<>>]
    ELSE IF Head(pages).kind = "raise" THEN [text |-> text, errors |-> <<ErrReadPdf>>]
    ELSE ReadPages(Tail(pages), text \o PageText(Head(pages)))

extract_text_from_pdf(uploaded_file) ==
    IF uploaded_file.opens
    THEN ReadPages(uploaded_file.pages, <<>>)
    ELSE [text |-> <<>>, errors |-> <<ErrReadPdf>>]

RECURSIVE LStrip(_)
LStrip(s) ==
    IF s # <<>> /\ Head(s) \in Whitespace THEN LStrip(Tail(s)) ELSE s

RECURSIVE RStrip(_)
RStrip(s) ==
    IF s # <<>> /\ s[Len(s)] \in Whitespace THEN RStrip(SubSeq(s, 1, Len(s) - 1)) ELSE s

\* str.strip()
Strip(s) == RStrip(LStrip(s))

------------------------------------------------------------------------------
(* Prompts and conversations *)

SystemMsg == [role |-> "system", content |-> SYSTEM_PROMPT]
UserMsg(content) == [role |-> "user", content |-> content]
AssistantMsg(content) == [role |-> "assistant", content |-> content]

\* text[:3500]
Truncate(text) == SubSeq(text, 1, Min(Len(text), EsgTextLimit))

EsgPrompt(text) == <<"ESG_PROMPT_HEAD">> \o Truncate(text) \o <<"\n-----\n">>

YesNo(b) == IF b THEN "Yes" ELSE "No"

AssessmentPrompt(material, weight, recyclable, renewable) ==
    <<"Material: ", material, "Weight: ", ToString(weight), " grams",
      "Recyclable: ", YesNo(recyclable),
      "Made from renewable resources: ", YesNo(renewable), "ASSESSMENT_TAIL">>

\* the messages list of the two one-shot paths
OneShot(prompt) == <<SystemMsg, UserMsg(prompt)>>

summarize_and_benchmark_esg(text, o) == ask_groq(OneShot(EsgPrompt(text)), o)

ai_sustainability_assessment(material, weight, recyclable, renewable, o) ==
    ask_groq(OneShot(AssessmentPrompt(material, weight, recyclable, renewable)), o)

\* st.session_state.messages.append({"role": "user", "content": prompt})
AppendUser(history, prompt) == Append(history, UserMsg(prompt))

\* the reply assigned as the whole history instead of appended
AssignAssistant(history, response) == <<AssistantMsg(response)>>

\* st.session_state.messages.append({"role": "assistant", "content": response})
AppendAssistant(history, response) == Append(history, AssistantMsg(response))

\* the history sent without the system message
ConversationNoSystem(history) == history

\* [{"role": "system", "content": SYSTEM_PROMPT}] + st.session_state.messages
Conversation(history) == <<SystemMsg>> \o history

------------------------------------------------------------------------------
(* estimate_carbon_footprint, in units of 0.0001 kg CO2e *)

\* a lookup whose default is the factor of Paper
MaterialFactorPaperDefault(material) ==
    IF material \in DOMAIN material_factors
    THEN material_factors[material]
    ELSE material_factors["Paper"]

\* material_factors.get(material, 2.0)
MaterialFactor(material) ==
    IF material \in DOMAIN material_factors
    THEN material_factors[material]
    ELSE DefaultFactor

estimate_carbon_footprint(material, weight, distance) ==
    LET material_emissions == weight * MaterialFactor(material)
        transport_emissions == weight * distance
    IN [material_emissions |-> material_emissions,
        transport_emissions |-> transport_emissions,
        total_emissions |-> material_emissions + transport_emissions]

------------------------------------------------------------------------------
(* The session *)

Init ==
    /\ GROQ_API_KEY \in BOOLEAN
    /\ messages = <<>>
    /\ uploaded = <<>>
    /\ lastAction = "none"
    /\ chatInput = <<>>
    /\ cfInput = <<>>
    /\ outcome = "none"
    /\ posts = <<>>
    /\ errors = <<>>
    /\ rendered = {}
    /\ calls = <<>>
    /\ uncaught = "none"
    /\ footprint = <<>>

\* what a run of main() leaves on the page
Page(action, o, p, e, r, c, u) ==
    /\ lastAction' = action
    /\ outcome' = o
    /\ posts' = p
    /\ errors' = e
    /\ rendered' = r
    /\ calls' = c
    /\ uncaught' = u

\* a run of main() in which no chat input, button or upload fired
Idle(action) ==
    /\ chatInput' = <<>>
    /\ cfInput' = <<>>
    /\ footprint' = <<>>
    /\ IF GROQ_API_KEY
       THEN Page(action, "none", <<>>, <<>>, AllViews, <<>>, "none")
       ELSE Page(action, "none", <<>>, <<ErrKeyNotSet>>, {"sidebar"}, <<>>, "none")

\* the error the caller shows when ask_groq gave nothing
Unanswered(r, msg) ==
    IF r.raised = "none" /\ ~Truthy(r.ret) THEN <<msg>> ELSE <<>>

\* the views rendered by a run that got as far as view last
Upto(r, last) == IF r.raised = "none" THEN AllViews ELSE last

\* the page is opened, or a widget changes value
Rerun ==
    /\ Idle("rerun")
    /\ UNCHANGED <<GROQ_API_KEY, messages, uploaded>>

ClearChat ==
    /\ "sidebar" \in rendered
    /\ messages' = <<>>
    /\ Idle("clear")
    /\ UNCHANGED <<GROQ_API_KEY, uploaded>>

Upload(pdf) ==
    /\ "esg" \in rendered
    /\ uploaded' = <<pdf>>
    /\ Idle("upload")
    /\ UNCHANGED <<GROQ_API_KEY, messages>>

ChatSubmit(prompt, o) ==
    /\ "chat" \in rendered
    /\ Len(messages) + 2 <= MaxHistory
    /\ LET withUser == AppendUser(messages, prompt)
           r == ask_groq(Conversation(withUser), o)
       IN /\ messages' = IF r.raised = "none" /\ Truthy(r.ret)
                         THEN AppendAssistant(withUser, r.ret.str)
                         ELSE withUser
          /\ Page("chat", o, r.posts, r.errors \o Unanswered(r, ErrNoResponse),
                  Upto(r, {"sidebar", "chat"}), <<"ask_groq">>, r.raised)
    /\ chatInput' = prompt
    /\ cfInput' = <<>>
    /\ footprint' = <<>>
    /\ UNCHANGED <<GROQ_API_KEY, uploaded>>

AnalyzeReport(o) ==
    /\ "esg" \in rendered
    /\ uploaded # <<>>
    /\ LET x == extract_text_from_pdf(uploaded[1])
           r == summarize_and_benchmark_esg(x.text, o)
       IN IF Strip(x.text) # <<>>
          THEN Page("analyze", o, r.posts,
                    x.errors \o r.errors \o Unanswered(r, ErrAnalyze),
                    Upto(r, {"sidebar", "chat", "esg"}),
                    <<"extract_text_from_pdf", "summarize_and_benchmark_esg", "ask_groq">>,
                    r.raised)
          ELSE Page("analyze", "none", <<>>, x.errors \o <<ErrNoText>>, AllViews,
                    <<"extract_text_from_pdf">>, "none")
    /\ chatInput' = <<>>
    /\ cfInput' = <<>>
    /\ footprint' = <<>>
    /\ UNCHANGED <<GROQ_API_KEY, messages, uploaded>>

GetScore(material, weight, recyclable, renewable, o) ==
    /\ "score" \in rendered
    /\ LET r == ai_sustainability_assessment(material, weight, recyclable, renewable, o)
       IN Page("score", o, r.posts, r.errors \o Unanswered(r, ErrScore),
               Upto(r, {"sidebar", "chat", "esg", "score"}),
               <<"ai_sustainability_assessment", "ask_groq">>, r.raised)
    /\ chatInput' = <<>>
    /\ cfInput' = <<>>
    /\ footprint' = <<>>
    /\ UNCHANGED <<GROQ_API_KEY, messages, uploaded>>

\* the button of carbon_footprint_tab
EstimateFootprint(material, weight, distance) ==
    /\ "carbon" \in rendered
    /\ cfInput' = <<[material |-> material, weight |-> weight, distance |-> distance]>>
    /\ footprint' = <<estimate_carbon_footprint(material, weight, distance)>>
    /\ Page("estimate", "none", <<>>, <<>>, AllViews, <<"estimate_carbon_footprint">>, "none")
    /\ chatInput' = <<>>
    /\ UNCHANGED <<GROQ_API_KEY, messages, uploaded>>

Next ==
    \/ Rerun
    \/ ClearChat
    \/ \E pdf \in PDFs : Upload(pdf)
    \/ \E prompt \in Prompts, o \in Outcomes : ChatSubmit(prompt, o)
    \/ \E o \in Outcomes : AnalyzeReport(o)
    \/ \E material \in ScoreMaterials, weight \in ScoreWeights,
          recyclable \in BOOLEAN, renewable \in Renewables, o \in Outcomes :
          GetScore(material, weight, recyclable, renewable, o)
    \/ \E material \in MaterialOptions, weight \in FormWeights, distance \in FormDistances :
          EstimateFootprint(material, weight, distance)

Spec == Init /\ [][Next]_vars

------------------------------------------------------------------------------
(* The estimator alone, over every material value *)

InitEstimator ==
    /\ Init
    /\ GROQ_API_KEY

CallEstimate(material, weight, distance) ==
    /\ cfInput' = <<[material |-> material, weight |-> weight, distance |-> distance]>>
    /\ footprint' = <<estimate_carbon_footprint(material, weight, distance)>>
    /\ calls' = <<"estimate_carbon_footprint">>
    /\ UNCHANGED <<GROQ_API_KEY, messages, uploaded, lastAction, chatInput,
                   outcome, posts, errors, rendered, uncaught>>

NextEstimator ==
    \E material \in MaterialOptions \cup UnknownMaterials,
       weight \in Weights, distance \in Distances :
       CallEstimate(material, weight, distance)

SpecEstimator == InitEstimator /\ [][NextEstimator]_vars

------------------------------------------------------------------------------
(* Properties *)

GatewayFailures == TransportFailures \cup {"http_error"}

\* the reply text a success body carries
ExpectedReply(o) == IF o = "ok_text" THEN <<"r1">> ELSE <<>>

Shown(msg) == msg \in Range(errors)

\* the entries of t after its prefix s
Added(s, t) == SubSeq(t, Len(s) + 1, Len(t))

\* C1: with GROQ_API_KEY unset, every run of main() still renders the
\* carbon-footprint view, and shows the missing-key error for the AI features.
C1_EstimatorUsableWithoutKey ==
    (~GROQ_API_KEY /\ lastAction # "none")
        => ("carbon" \in rendered /\ Shown(ErrKeyNotSet))

\* C2 as stated: every action, Clear Chat included, leaves the old history a
\* prefix of the new one, and adds only the user's message followed on success
\* by the assistant's reply.
C2_AppendOnly ==
    [][/\ IsPrefix(messages, messages')
       /\ \/ messages' = messages
          \/ /\ lastAction' = "chat"
             /\ Added(messages, messages') = <<UserMsg(chatInput')>>
          \/ /\ lastAction' = "chat"
             /\ outcome' \in ReplyBodies
             /\ Added(messages, messages')
                  = <<UserMsg(chatInput'), AssistantMsg(ExpectedReply(outcome'))>>]_vars

\* C2 amended: Clear Chat empties the history; every other action leaves the
\* old history a prefix of the new one and adds nothing, or the user's message,
\* or the user's message followed by the assistant's reply, the latter only
\* after a chat submit whose gateway call succeeded.
C2_AppendOnlyExceptClear ==
    [][/\ lastAction' = "clear" => messages' = <<>>
       /\ lastAction' # "clear" =>
            /\ IsPrefix(messages, messages')
            /\ \/ messages' = messages
               \/ /\ lastAction' = "chat"
                  /\ Added(messages, messages') = <<UserMsg(chatInput')>>
               \/ /\ lastAction' = "chat"
                  /\ outcome' \in ReplyBodies
                  /\ Added(messages, messages')
                       = <<UserMsg(chatInput'), AssistantMsg(ExpectedReply(outcome'))>>]_vars

\* a chat submit has appended a user message and a reply to an earlier turn
C2_Witness ==
    /\ lastAction = "chat"
    /\ Len(messages) = 3
    /\ messages[2].role = "user"
    /\ messages[3].role = "assistant"

\* C3: after a chat submit whose gateway call fails (non-2xx status, transport
\* error, timeout) the history is the old history plus the user's message only.
C3_FailedChatKeepsUserOnly ==
    [][(lastAction' = "chat" /\ outcome' \in GatewayFailures)
          => messages' = Append(messages, UserMsg(chatInput'))]_vars

\* a chat submit failed on a history that already held a turn
C3_Witness ==
    /\ lastAction = "chat"
    /\ outcome \in GatewayFailures
    /\ Len(messages) = 2
    /\ messages[1].role = "user"
    /\ messages[2] = UserMsg(chatInput)
    /\ Shown(ErrNoResponse)

\* C4: a success response without a well-formed choices[0].message.content
\* makes ask_groq return the failure value with the 'unexpected response
\* format' error and never raise; no reply is recorded.
C4_MalformedBodyIsFailure ==
    outcome \in MalformedBodies
        => /\ uncaught = "none"
           /\ Shown(ErrFormat)
           /\ lastAction = "chat" => messages[Len(messages)].role = "user"

\* C5: when extraction fails, 'analyze report' makes no gateway request and
\* does not call summarize_and_benchmark_esg.
C5_NoAnalysisAfterExtractionFailure ==
    (lastAction = "analyze" /\ Shown(ErrReadPdf))
        => (posts = <<>> /\ "summarize_and_benchmark_esg" \notin Range(calls))

\* C6: after a chat submit whose gateway call succeeds with any reply text,
\* the empty one included, the history is the old history plus the user's
\* message and then the assistant's reply.
C6_SuccessfulChatAddsTwo ==
    [][(lastAction' = "chat" /\ outcome' \in ReplyBodies)
          => messages' = messages \o <<UserMsg(chatInput'),
                                       AssistantMsg(ExpectedReply(outcome'))>>]_vars

C8_AtMostOnePost ==
    /\ Len(posts) <= 1
    /\ lastAction = "estimate" => posts = <<>>

\* a request timed out and was sent once
C8_Witness ==
    /\ lastAction \in {"chat", "analyze", "score"}
    /\ outcome \in TransportFailures
    /\ Len(posts) = 1

\* C9: 'analyze report' never shows the 'no readable text' error together with
\* the 'could not read PDF' error, and with either of them sends no request.
C9_DistinctDocumentErrors ==
    lastAction = "analyze"
        => /\ ~(Shown(ErrNoText) /\ Shown(ErrReadPdf))
           /\ (Shown(ErrNoText) \/ Shown(ErrReadPdf)) => posts = <<>>

\* C10: for a material outside the factor table the three results are those of
\* material "Other" (factor 2.0) with the same weight and distance, and total
\* is material plus transport.
C10_UnknownMaterialIsOther ==
    \A i \in DOMAIN footprint :
        LET in == cfInput[i]
            out == footprint[i]
        IN /\ out.total_emissions = out.material_emissions + out.transport_emissions
           /\ in.material \notin MaterialOptions =>
                /\ out = estimate_carbon_footprint("Other", in.weight, in.distance)
                /\ out.material_emissions = in.weight * 20
                /\ out.transport_emissions = in.weight * in.distance

\* material "Unknown-XYZ", 1000 g, 10 km: 2.0, 1.0 and 3.0 kg CO2e
C10_Witness ==
    /\ cfInput = <<[material |-> "Unknown-XYZ", weight |-> 1000, distance |-> 10]>>
    /\ footprint = <<[material_emissions |-> 20000, transport_emissions |-> 10000,
                      total_emissions |-> 30000]>>

====
